---- MODULE Spec2Model ----
(***************************************************************************)
(* The paginated extraction engine of the browser parser service           *)
(* (src/unnamed/part_008, extractWithPagination and the executors it       *)
(* dispatches to), as a state machine of one run.  Every await of the      *)
(* source that can change the run's state or throw is a step; the document *)
(* surface, the item extractor, the cursor functions and the event         *)
(* handlers are the environment: each call returns one of its possible     *)
(* results or throws.                                                      *)
(***************************************************************************)
EXTENDS Integers, Sequences, FiniteSets, TLC

(***************************************************************************)
(* Bounds of the model (not program constants).                            *)
(***************************************************************************)
\* cycles a run may complete before the model stops following it
MaxCycles == 2
\* longest batch one extractor call returns
MaxBatch == 2
\* largest maxPages / maxItems / maxScrolls a configuration sets
MaxCap == 2
\* items the extractor returns over a whole run (the document's content)
MaxTotal == 3
\* selectors a load-more configuration lists (buttonSelector + alternatives)
NumSelectors == 2

(***************************************************************************)
(* Values.                                                                 *)
(***************************************************************************)
\* an optional value: <<>> is undefined / null, <<v>> is the value v
Undefined == <<>>
Some(v) == <<v>>

\* JavaScript truthiness of an optional number: `config.maxPages && ...`
TruthyNum(o) == o # Undefined /\ o[1] # 0

\* JavaScript truthiness of an optional string: `!nextCursor`
TruthyStr(o) == o # Undefined /\ o[1] # ""

\* the items an extractor returns
Items == {1, 2, 3}

\* the caller's duplicate key of an item (`existing.index === item.index`):
\* items 1 and 2 are different values with the same key
KeyOf(item) == (item + 1) \div 2

RECURSIVE SeqsUpTo(_, _)
SeqsUpTo(S, n) ==
    IF n = 0 THEN {<<>>}
    ELSE LET shorter == SeqsUpTo(S, n - 1)
         IN  shorter \cup {Append(s, x) : s \in shorter, x \in S}

\* what one extractItems call can return
Batches == SeqsUpTo(Items, MaxBatch)

StrategyTypes ==
    {"infinite-scroll", "load-more-button", "numbered-pagination",
     "cursor-based", "time-based"}

PaginationTypes == StrategyTypes \cup {"hybrid"}

StopReasons == {"maxPages", "maxItems", "endReached", "error", "customCondition"}

OptCap == {Undefined} \cup {Some(n) : n \in 0..MaxCap}

\* a caller's stopCondition(page, currentItems, pageNumber): stop once a
\* cycle has completed
StopCondition(currentItems, pageNumber) == pageNumber >= 1

\* the switchCondition(page, attempt) of createPaginationConfig's hybrid
\* configuration
SwitchCondition(attempt) == attempt > 3

\* a PaginationConfig: its caps, and whether the caller supplied the
\* stopCondition above (with the page cap only) and, on a hybrid
\* configuration, the switchCondition above
PaginationConfigs(types) ==
    { c \in [type : types, maxPages : OptCap, maxItems : OptCap,
             maxScrolls : {Undefined, Some(MaxCap)},
             stopCondition : BOOLEAN, switchCondition : BOOLEAN] :
        /\ c.type # "infinite-scroll" => c.maxScrolls = Undefined
        /\ c.stopCondition =>
              /\ c.maxPages \in {Undefined, Some(MaxCap)}
              /\ c.maxItems = Undefined
              /\ c.maxScrolls = Undefined
        /\ c.switchCondition => c.type = "hybrid" }

\* primaryStrategy of a hybrid configuration: any strategy but hybrid,
\* without a cap or with maxPages 1
PrimaryStrategies ==
    { c \in PaginationConfigs(StrategyTypes) :
        /\ c.maxPages \in {Undefined, Some(1)}
        /\ c.maxItems = Undefined
        /\ c.maxScrolls = Undefined
        /\ ~c.stopCondition }

\* fallbackStrategy of a hybrid configuration: any strategy but hybrid, with
\* maxPages 1
FallbackStrategies == { c \in PrimaryStrategies : c.maxPages = Some(1) }

\* PaginatedExtractionOptions: pagination, isDuplicate?, includeDuplicates?
Options ==
    { o \in [pagination : PaginationConfigs(PaginationTypes),
             hasIsDuplicate : BOOLEAN, includeDuplicates : BOOLEAN] :
        /\ o.includeDuplicates => o.hasIsDuplicate
        \* a hybrid configuration sets both caps on itself, as the one of
        \* createPaginationConfig does; it comes with a switchCondition and
        \* no isDuplicate, or with isDuplicate and no switchCondition
        /\ o.pagination.type = "hybrid" =>
              /\ o.pagination.maxPages = Some(1)
              /\ o.pagination.maxItems = Some(1)
              /\ o.pagination.switchCondition = ~o.hasIsDuplicate
              /\ ~o.includeDuplicates }

NoConfig ==
    [type |-> "none", maxPages |-> Undefined, maxItems |-> Undefined,
     maxScrolls |-> Undefined, stopCondition |-> FALSE,
     switchCondition |-> FALSE]

ThisContext == "ctx"

\* Date.now() when extractWithPagination is entered: a positive instant
StartTime == 1

\* what Date.now() can return later in the run: the same instant or a later
\* one
LaterReadings == {StartTime, StartTime + 1}

\* a quotient of two numbers, as the pair <<numerator, denominator>>
Quotient(n, d) == <<n, d>>

VARIABLES
    options,    \* the caller's PaginatedExtractionOptions
    active,     \* `config` of the executor that is running
    phase,      \* "none", or the hybrid executor's "primary" / "fallback"
    pc,         \* position of the run
    state,      \* PaginationState
    result,     \* PaginationResult
    loc,        \* the executors' local variables
    page,       \* "none" | "open" | "closed"
    context,    \* "none" | "open" | "closed"
    contexts,   \* the service's set of tracked contexts
    thrown,     \* the error in flight, <<>> when none
    pending,    \* how the try statement ends: "none" | "return" | "throw"
    outcome,    \* of the promise: "pending" | "resolved" | "rejected"
    obs         \* what an observer of the run has seen (history)

\* Two runs on one service instance (the specification SpecConcurrent below)
\* have these besides: the service's browser field and the run's locals; the
\* tracked set `contexts` above is the service's in both specifications.
VARIABLES
    browser,    \* this.browser: NoBrowser, or the browser launched
    surface,    \* the document surface: browsers launched, contexts created
    run         \* for each run, its position and its local variables

\* A run that is compared with a second run on the same document behaviour
\* (the specification SpecTwin below) has this besides.
VARIABLE
    twin        \* which run these variables hold, and the other run

concurrent == <<browser, surface, run, twin>>

vars ==
    <<options, active, phase, pc, state, result, loc, page, context, contexts,
      thrown, pending, outcome, obs, concurrent>>

\* the runs of SpecConcurrent
Runs == {1, 2}

NoBrowser == 0

\* nothing launched, no context created, no browser lost
NoSurface == [launched |-> 0, opened |-> <<>>, disconnected |-> {}]

\* a run's locals as extractWithPagination constructs them; browser, context
\* and page are 0 until the run holds one
NewRun ==
    [pc |-> "idle", browser |-> NoBrowser, context |-> 0, page |-> 0,
     currentPage |-> 0, items |-> <<>>, pagesProcessed |-> 0,
     completed |-> FALSE, stopReason |-> "endReached", errors |-> <<>>,
     outcome |-> "pending"]

NoLocals ==
    [newItems |-> <<>>, scrollCount |-> 0, lastItemCount |-> 0,
     cursor |-> Undefined, initial |-> FALSE]

\* the events an observer counts: the ones that fire once per run
NoEvents == [onPageStart |-> 0, onError |-> 0, onComplete |-> 0]

\* a search for the load-more button that has examined nothing
NoSearch == [examined |-> <<>>, clicked |-> <<>>]

\* no comparison is under way
NoTwin == [leader |-> "none", holder |-> "none", primary |-> <<>>,
           other |-> <<>>]

NoFault == [by |-> "none", phase |-> "none", items |-> <<>>, page |-> 0]

Init ==
    /\ options \in Options
    /\ active = NoConfig
    /\ phase = "none"
    /\ pc = "getPage"
    /\ state = [currentPage |-> 0, totalItems |-> 0, errors |-> <<>>,
                lastCursor |-> Undefined]
    /\ result = [items |-> <<>>, pagesProcessed |-> 0, totalTime |-> 0,
                 completed |-> FALSE, stopReason |-> "endReached",
                 errors |-> <<>>, startTime |-> StartTime, endTime |-> 0,
                 averagePageTime |-> Quotient(0, 1),
                 lastCursor |-> Undefined]
    /\ loc = NoLocals
    /\ page = "none"
    /\ context = "none"
    /\ contexts = {}
    /\ thrown = <<>>
    /\ pending = "none"
    /\ outcome = "pending"
    /\ browser = NoBrowser
    /\ surface = NoSurface
    /\ run = [r \in Runs |-> NewRun]
    /\ twin = NoTwin
    /\ obs = [fired |-> NoEvents, extractorCalled |-> FALSE,
              pageCloses |-> 0, ctxCloses |-> 0, late |-> FALSE,
              fault |-> NoFault, primaryFault |-> "none",
              onErrorArgs |-> <<>>, handlerThrew |-> FALSE,
              onErrorThrew |-> FALSE,
              revealFault |-> FALSE, openFailed |-> "none",
              fallbackStarts |-> 0,
              harvested |-> 0, buttonSeen |-> FALSE, clicked |-> FALSE,
              stale |-> FALSE, lastToken |-> Undefined, unused |-> FALSE,
              navigatedWith |-> Undefined, switchConditionCalls |-> 0,
              extractedPages |-> <<>>, fullBatch |-> TRUE,
              wholeBatches |-> TRUE, offsetUnchanged |-> FALSE,
              added |-> FALSE, cycleScrolls |-> 0, staleRun |-> 0,
              ceiling |-> FALSE, lastEvent |-> "none", search |-> NoSearch,
              waitTimedOut |-> FALSE, traced |-> FALSE, lastCall |-> <<>>]


(***************************************************************************)
(* Pure parts of the engine.                                               *)
(***************************************************************************)
\* variant: the item cap tested before the page cap
ShouldContinueItemsFirst(config, st, res) ==
    IF TruthyNum(config.maxItems) /\ Len(res.items) >= config.maxItems[1]
    THEN "maxItems"
    ELSE IF TruthyNum(config.maxPages) /\ st.currentPage >= config.maxPages[1]
    THEN "maxPages"
    ELSE "continue"

\* variant: the item cap met only when it is exceeded
ShouldContinueUntilExceeded(config, st, res) ==
    IF TruthyNum(config.maxPages) /\ st.currentPage >= config.maxPages[1]
    THEN "maxPages"
    ELSE IF TruthyNum(config.maxItems) /\ Len(res.items) > config.maxItems[1]
    THEN "maxItems"
    ELSE "continue"

\* variant: the page cap is not tested
ShouldContinueItemsOnly(config, st, res) ==
    IF TruthyNum(config.maxItems) /\ Len(res.items) >= config.maxItems[1]
    THEN "maxItems"
    ELSE "continue"

\* variant: a cap that is met is reported once, not again while the result
\* already carries its stop reason
ShouldContinueReportsOnce(config, st, res) ==
    IF /\ TruthyNum(config.maxPages) /\ st.currentPage >= config.maxPages[1]
       /\ res.stopReason # "maxPages"
    THEN "maxPages"
    ELSE IF /\ TruthyNum(config.maxItems)
            /\ Len(res.items) >= config.maxItems[1]
            /\ res.stopReason # "maxItems"
    THEN "maxItems"
    ELSE "continue"

\* shouldContinuePagination: "continue", or the stop reason it records
ShouldContinuePagination(config, st, res) ==
    IF TruthyNum(config.maxPages) /\ st.currentPage >= config.maxPages[1]
    THEN "maxPages"
    ELSE IF TruthyNum(config.maxItems) /\ Len(res.items) >= config.maxItems[1]
    THEN "maxItems"
    \* `if (config.stopCondition) { }`: the body is empty, the condition is
    \* not called
    ELSE "continue"

\* the result after a call of shouldContinuePagination: its only write is
\* result.stopReason, when it returns false
ResultAfterShouldContinue(config, st, res) ==
    LET verdict == ShouldContinuePagination(config, st, res)
    IN  IF verdict = "continue" THEN res
        ELSE [res EXCEPT !.stopReason = verdict]

\* the caller's isDuplicate: some accumulated item has the item's key
IsDuplicate(item, existingItems) ==
    \E i \in 1..Len(existingItems) : KeyOf(existingItems[i]) = KeyOf(item)

\* the options under which the test below accepts every item
AcceptsAll == ~options.hasIsDuplicate \/ options.includeDuplicates

\* the test of processNewItems' loop body: is the item pushed
Accepted(item, items) ==
    LET isDuplicate ==
            IF options.hasIsDuplicate THEN IsDuplicate(item, items) ELSE FALSE
    IN  ~isDuplicate \/ options.includeDuplicates

\* variant: the batch filtered against the items accumulated before it,
\* then pushed whole
AccumulateAgainstSnapshot(newItems, items) ==
    items \o SelectSeq(newItems, LAMBDA item : Accepted(item, items))

\* variant: an accepted item is put in front of the accumulated items
RECURSIVE AccumulateInFront(_, _)
AccumulateInFront(newItems, items) ==
    IF newItems = <<>> THEN items
    ELSE AccumulateInFront(Tail(newItems),
                           IF Accepted(Head(newItems), items)
                           THEN <<Head(newItems)>> \o items
                           ELSE items)

\* the loop of processNewItems: result.items after the batch
RECURSIVE Accumulate(_, _)
Accumulate(newItems, items) ==
    IF newItems = <<>> THEN items
    ELSE Accumulate(Tail(newItems),
                    IF Accepted(Head(newItems), items)
                    THEN Append(items, Head(newItems))
                    ELSE items)

\* variant: every item of the batch is counted
PushesWholeBatch(newItems, items) == Len(newItems)

\* the loop of processNewItems: how many times state.totalItems++ runs
RECURSIVE Pushes(_, _)
Pushes(newItems, items) ==
    IF newItems = <<>> THEN 0
    ELSE IF Accepted(Head(newItems), items)
    THEN 1 + Pushes(Tail(newItems), Append(items, Head(newItems)))
    ELSE Pushes(Tail(newItems), items)

\* performScroll's return value for what the document did
\*   evaluateThrows : page.evaluate threw (caught, false)
\*   same / moved   : scrollY after = / # scrollY before
\*   Near / Far     : whether scrollY + clientHeight >= scrollHeight - 100
ScrollOutcomes ==
    {"evaluateThrows", "sameFar", "sameNear", "movedFar", "movedNear"}

PerformScroll(o) == o \notin {"evaluateThrows", "sameFar"}

\* what one selector of clickLoadMoreButton can do
SelectorOutcomes == {"hidden", "clicked", "isVisibleThrows", "clickThrows"}

\* clickLoadMoreButton: the first selector that is visible and clicks
\* returns true; a throw moves on to the next selector
ClickLoadMoreButton(outs) == \E i \in 1..NumSelectors : outs[i] = "clicked"

\* the selectors clickLoadMoreButton examines before it returns
Examined(outs) ==
    { i \in 1..NumSelectors : \A j \in 1..(i - 1) : outs[j] # "clicked" }

\* variant: every selector is examined and every visible button is clicked
RECURSIVE SearchEverySelector(_, _, _)
SearchEverySelector(outs, i, seen) ==
    IF i > NumSelectors THEN seen
    ELSE SearchEverySelector(outs, i + 1,
             [examined |-> Append(seen.examined, i),
              clicked |-> IF outs[i] = "clicked"
                          THEN Append(seen.clicked, i) ELSE seen.clicked])

\* the loop of clickLoadMoreButton from selector i on: the selectors it
\* examines, in order, and the ones whose click succeeded
RECURSIVE Search(_, _, _)
Search(outs, i, seen) ==
    IF i > NumSelectors THEN seen
    ELSE IF outs[i] = "clicked"
    THEN [examined |-> Append(seen.examined, i),
          clicked |-> Append(seen.clicked, i)]
    ELSE Search(outs, i + 1, [seen EXCEPT !.examined = Append(@, i)])

\* what an optional wait for a selector can do: the selector shows up (or
\* none is configured and the wait is a fixed delay), or the wait times out
WaitOutcomes == {"found", "timeout"}

\* variant: the timeout of an optional wait leaves the executor
WaitEscapesOnTimeout(w) == w = "timeout"

\* `try { await page.waitForSelector(...) } catch { }`: does the wait's error
\* leave the try statement
WaitEscapes(w) == FALSE

\* navigateToNextPage
NextPageOutcomes ==
    {"hidden", "navigated", "isVisibleThrows", "clickThrows", "loadStateTimeout"}

NavigateToNextPage(o) == o = "navigated"

\* what extractCursor can return
CursorReturns == {Undefined, Some(""), Some("c1"), Some("c2")}

ErrorMessage(by) ==
    CASE by = "time-based" -> "Time-based pagination not yet implemented"
      [] by = "noResponse" -> "Failed to navigate to page"
      [] OTHER -> by \o " failed"

(***************************************************************************)
(* The observer's bookkeeping.                                             *)
(***************************************************************************)
\* the observer follows the scrolls of an infinite-scroll executor that is
\* not a hybrid run's
Watched == phase = "none" /\ active.type = "infinite-scroll"

\* a call on the page, the extractor or a handler: late if the page is
\* closed; what the observer saw of the last button search ends with it
Called(o) ==
    [o EXCEPT !.late = @ \/ page # "open", !.search = NoSearch,
              !.waitTimedOut = FALSE]

\* a once-per-run event fires; the per-cycle events are calls like any other
Fired(o, ev) ==
    IF ev \in DOMAIN NoEvents
    THEN [Called(o) EXCEPT !.fired[ev] = @ + 1, !.lastEvent = ev]
    ELSE [Called(o) EXCEPT !.lastEvent = ev]

\* the call the engine made last and what came of it, kept for a run that
\* is compared with another
Logged(o, call, came) ==
    [o EXCEPT !.lastCall = IF o.traced THEN <<call, came>> ELSE @]

\* an optional wait has ended
Waited(o, w) == [o EXCEPT !.waitTimedOut = w = "timeout"]

Handlers ==
    {"onPageStart", "onItemsExtracted", "onPageComplete", "onComplete",
     "onError"}

\* the calls of an executor into the caller's code and the document that
\* the engine makes without a handler of its own
HarvestCalls ==
    {"page.content", "extractItems", "extractCursor", "navigateWithCursor"}

FaultClass(by) ==
    IF by \in Handlers THEN "handler"
    ELSE IF by \in HarvestCalls THEN "harvest" ELSE by

\* the last error thrown, with the accepted items and the cycle at the throw;
\* of an error thrown while the hybrid executor's primary runs, its class
Fault(o, by, items) ==
    [o EXCEPT !.fault = [by |-> by, phase |-> phase, items |-> items,
                         page |-> state.currentPage],
              !.primaryFault = IF phase = "primary" THEN FaultClass(by) ELSE @]

HandlerFault(o, by, items) ==
    [Fault(o, by, items) EXCEPT !.handlerThrew = TRUE]

(***************************************************************************)
(* Control flow shared by the steps.                                       *)
(***************************************************************************)
\* where an error thrown inside performPagination is caught: the hybrid
\* executor's catch while its primary runs, else extractWithPagination's
CatchPc == IF phase = "primary" THEN "hybridCatch" ELSE "catch"

\* a throw unwinds the executor: its locals are gone
Throw(o, by) ==
    /\ thrown' = Some(ErrorMessage(by))
    /\ pc' = CatchPc
    /\ obs' = o
    /\ loc' = NoLocals

\* an executor ends its loop with a stop reason and returns
Stop(reason) ==
    /\ result' = [result EXCEPT !.stopReason = reason]
    /\ pc' = "complete"
    /\ loc' = NoLocals


(***************************************************************************)
(* extractWithPagination: opening the document.                            *)
(***************************************************************************)
\* where getPage can fail, in the order of its awaits
OpenFailures ==
    {"newContext", "newPage", "goto", "noResponse", "waitForSelector"}

\* the failures that happen after createContext has tracked the context
AfterContext == OpenFailures \ {"newContext"}

\* variant: getPage awaited inside the try statement
GetPageFailsInsideTry(stage) ==
    /\ context' = IF stage \in AfterContext THEN "open" ELSE context
    /\ contexts' = IF stage \in AfterContext
                   THEN contexts \cup {ThisContext} ELSE contexts
    /\ page' = IF stage \in AfterContext \ {"newPage"} THEN "open" ELSE page
    /\ thrown' = Some(ErrorMessage(stage))
    /\ pc' = "catch"
    /\ obs' = [obs EXCEPT !.openFailed = stage]
    /\ UNCHANGED <<concurrent, options, active, phase, state, result, loc, pending,
                   outcome>>

\* variant: the open failure recorded in result.errors before it propagates
GetPageFailsRecorded(stage) ==
    /\ context' = IF stage \in AfterContext THEN "open" ELSE context
    /\ contexts' = IF stage \in AfterContext
                   THEN contexts \cup {ThisContext} ELSE contexts
    /\ page' = IF stage \in AfterContext \ {"newPage"} THEN "open" ELSE page
    /\ thrown' = Some(ErrorMessage(stage))
    /\ result' = [result EXCEPT !.errors = Append(@, ErrorMessage(stage)),
                                !.stopReason = "error"]
    /\ outcome' = "rejected"
    /\ pc' = "done"
    /\ obs' = [obs EXCEPT !.openFailed = stage]
    /\ UNCHANGED <<concurrent, options, active, phase, state, loc, pending>>

\* getPage has no handler of its own and is awaited outside the try
\* statement: its error rejects the call
GetPageFails(stage) ==
    /\ context' = IF stage \in AfterContext THEN "open" ELSE context
    /\ contexts' = IF stage \in AfterContext
                   THEN contexts \cup {ThisContext} ELSE contexts
    /\ page' = IF stage \in AfterContext \ {"newPage"} THEN "open" ELSE page
    /\ thrown' = Some(ErrorMessage(stage))
    /\ outcome' = "rejected"
    /\ pc' = "done"
    /\ obs' = [obs EXCEPT !.openFailed = stage]
    /\ UNCHANGED <<concurrent, options, active, phase, state, result, loc, pending>>

GetPageOpens ==
    /\ context' = "open"
    /\ contexts' = contexts \cup {ThisContext}
    /\ page' = "open"
    /\ pc' = "onPageStart"
    /\ UNCHANGED <<concurrent, options, active, phase, state, result, loc, thrown,
                   pending, outcome, obs>>

GetPage ==
    /\ pc = "getPage"
    /\ \/ GetPageOpens
       \/ \E stage \in OpenFailures : GetPageFails(stage)

\* options.eventHandlers?.onPageStart?.(0, state), inside the try
OnPageStart ==
    /\ pc = "onPageStart"
    /\ \/ /\ pc' = "performPagination"
          /\ active' = options.pagination
          /\ obs' = Logged(Fired(obs, "onPageStart"), "onPageStart",
                           "returned")
          /\ UNCHANGED <<thrown, loc>>
       \/ /\ Throw(HandlerFault(Logged(Fired(obs, "onPageStart"),
                                       "onPageStart", "threw"),
                                "onPageStart", result.items), "onPageStart")
          /\ UNCHANGED active
    /\ UNCHANGED <<concurrent, options, phase, state, result, page, context, contexts,
                   pending, outcome>>

(***************************************************************************)
(* performPagination and the hybrid executor.                              *)
(***************************************************************************)
\* variant: the unimplemented strategy returns without doing anything
PerformTimeBasedPaginationNoOp ==
    /\ pc' = "complete"
    /\ UNCHANGED <<thrown, loc, obs>>

\* performTimeBasedPagination: its whole body is a throw
PerformTimeBasedPagination ==
    Throw(Fault(obs, "time-based", result.items), "time-based")

\* variant: the primary strategy runs under the hybrid configuration's caps
PrimaryConfigWithOwnCaps(primaryStrategy) ==
    [primaryStrategy EXCEPT !.maxPages = options.pagination.maxPages,
                            !.maxItems = options.pagination.maxItems]

\* the configuration the hybrid executor runs its primary strategy with:
\* `{ ...options, pagination: config.primaryStrategy }`
PrimaryConfig(primaryStrategy) == primaryStrategy

\* the switch of performPagination on config.type; an executor's locals
\* are fresh on every entry
PerformPagination ==
    /\ pc = "performPagination"
    /\ \/ /\ active.type \in {"infinite-scroll", "numbered-pagination",
                              "cursor-based"}
          /\ loc' = NoLocals
          /\ pc' = "loop"
          /\ UNCHANGED <<active, phase, thrown, obs>>
       \/ /\ active.type = "load-more-button"
          /\ loc' = [NoLocals EXCEPT !.initial = TRUE]
          /\ pc' = "content"
          /\ UNCHANGED <<active, phase, thrown, obs>>
       \/ /\ active.type = "time-based"
          /\ PerformTimeBasedPagination
          /\ UNCHANGED <<active, phase>>
       \/ /\ active.type = "hybrid"
          \* performHybridPagination: the primary strategy, through
          \* performPagination again
          /\ \E primaryStrategy \in PrimaryStrategies :
                active' = PrimaryConfig(primaryStrategy)
          /\ phase' = "primary"
          /\ pc' = "performPagination"
          /\ UNCHANGED <<loc, thrown, obs>>
    /\ UNCHANGED <<concurrent, options, state, result, page, context, contexts, pending,
                   outcome>>

\* variant: the fallback strategy is tried only if switchCondition, when
\* supplied, says so; otherwise the primary's error goes on to the caller
HybridFallbackOnSwitchCondition ==
    /\ pc = "hybridCatch"
    /\ IF options.pagination.switchCondition /\ ~SwitchCondition(1)
       THEN /\ pc' = "catch"
            /\ obs' = [obs EXCEPT !.switchConditionCalls = @ + 1]
            /\ UNCHANGED <<active, thrown>>
       ELSE /\ \E fallbackStrategy \in FallbackStrategies :
                  active' = fallbackStrategy
            /\ thrown' = <<>>
            /\ pc' = "performPagination"
            /\ obs' = [obs EXCEPT !.fallbackStarts = @ + 1, !.fault = NoFault]
    /\ phase' = "fallback"
    /\ UNCHANGED <<concurrent, options, state, result, loc, page, context, contexts,
                   pending, outcome>>

\* variant: the fallback strategy starts the run over
HybridFallbackStartsOver ==
    /\ pc = "hybridCatch"
    /\ \E fallbackStrategy \in FallbackStrategies : active' = fallbackStrategy
    /\ phase' = "fallback"
    /\ thrown' = <<>>
    /\ pc' = "performPagination"
    /\ obs' = [obs EXCEPT !.fallbackStarts = @ + 1, !.fault = NoFault]
    /\ state' = [state EXCEPT !.currentPage = 0, !.totalItems = 0]
    /\ result' = [result EXCEPT !.items = <<>>, !.pagesProcessed = 0]
    /\ UNCHANGED <<concurrent, options, loc, page, context, contexts, pending, outcome>>

\* the catch of performHybridPagination: the fallback strategy, on the same
\* state and result
HybridFallback ==
    /\ pc = "hybridCatch"
    /\ \E fallbackStrategy \in FallbackStrategies : active' = fallbackStrategy
    /\ phase' = "fallback"
    /\ thrown' = <<>>
    /\ pc' = "performPagination"
    /\ obs' = [obs EXCEPT !.fallbackStarts = @ + 1, !.fault = NoFault]
    /\ UNCHANGED <<concurrent, options, state, result, loc, page, context, contexts,
                   pending, outcome>>

(***************************************************************************)
(* The steps of the executors.                                             *)
(***************************************************************************)
\* the guard of every executor's while loop
LoopGuard ==
    /\ pc = "loop"
    /\ LET verdict == ShouldContinuePagination(active, state, result)
       IN  IF verdict = "continue"
           THEN /\ pc' = IF active.type = "load-more-button"
                         THEN "click" ELSE "content"
                /\ UNCHANGED <<result, loc>>
           ELSE /\ result' = ResultAfterShouldContinue(active, state, result)
                /\ pc' = "complete"
                /\ loc' = NoLocals
    /\ UNCHANGED <<concurrent, options, active, phase, state, page, context,
                   contexts, thrown, pending, outcome, obs>>

\* html = await page.content()
PageContent ==
    /\ pc = "content"
    /\ \/ /\ obs' = Logged(Called(obs), "page.content", "returned")
          /\ pc' = "extract"
          /\ UNCHANGED <<thrown, loc>>
       \/ Throw(Fault(Logged(Called(obs), "page.content", "threw"),
                      "page.content", result.items), "page.content")
    /\ UNCHANGED <<concurrent, options, active, phase, state, result, page, context,
                   contexts, pending, outcome>>

\* variant: onItemsExtracted is handed the items the loop pushed
ItemsExtractedArgumentAccepted(newItems, pushed) == pushed

\* the first argument of onItemsExtracted: processNewItems' parameter
\* newItems, not the items its loop pushed
ItemsExtractedArgument(newItems, pushed) == newItems

\* processNewItems(newItems, ...): the accumulation loop, then
\* onItemsExtracted(newItems, state.currentPage, state)
ProcessNewItems(newItems, o) ==
    LET items == Accumulate(newItems, result.items)
        pushed == SubSeq(items, Len(result.items) + 1, Len(items))
        args == <<ItemsExtractedArgument(newItems, pushed), state.currentPage>>
        told == [Fired(o, "onItemsExtracted") EXCEPT
                   !.extractedPages = Append(@, state.currentPage),
                   !.added = Watched /\ pushed # <<>>,
                   !.wholeBatches =
                       @ /\ (AcceptsAll => items = result.items \o newItems),
                   !.fullBatch =
                       @ /\ ItemsExtractedArgument(newItems, pushed) = newItems]
    IN  /\ result' = [result EXCEPT !.items = items]
        /\ state' = [state EXCEPT
                       !.totalItems = @ + Pushes(newItems, result.items)]
        /\ \/ /\ obs' = Logged(told, "onItemsExtracted", <<args, "returned">>)
              \* load-more's harvest before the loop has no onPageComplete
              /\ pc' = IF loc.initial THEN "loop" ELSE "onPageComplete"
              /\ loc' = [loc EXCEPT !.initial = FALSE, !.newItems = newItems]
              /\ UNCHANGED thrown
           \/ Throw(HandlerFault(Logged(told, "onItemsExtracted",
                                        <<args, "threw">>),
                                 "onItemsExtracted", items),
                    "onItemsExtracted")

\* newItems = await options.extractItems(page, html), and the call of
\* processNewItems that follows it
ExtractItems ==
    /\ pc = "extract"
    /\ LET o == [Called(obs) EXCEPT !.extractorCalled = TRUE]
       IN  \/ /\ Throw(Fault(Logged(o, "extractItems", "threw"),
                            "extractItems", result.items), "extractItems")
              /\ UNCHANGED <<state, result>>
           \/ \E newItems \in Batches :
                /\ Len(result.items) + Len(newItems) <= MaxTotal
                /\ ProcessNewItems(newItems,
                                   [Logged(o, "extractItems", newItems)
                                      EXCEPT !.harvested = @ + 1])
    /\ UNCHANGED <<concurrent, options, active, phase, page, context, contexts, pending,
                   outcome>>

\* options.eventHandlers?.onPageComplete?.(state.currentPage, newItems, state)
OnPageComplete ==
    /\ pc = "onPageComplete"
    /\ \/ /\ obs' = Logged(Fired(obs, "onPageComplete"), "onPageComplete",
                           <<state.currentPage, loc.newItems, "returned">>)
          /\ pc' = CASE active.type = "infinite-scroll" -> "scroll"
                     [] active.type = "load-more-button" -> "advance"
                     [] active.type = "numbered-pagination" -> "navigate"
                     [] active.type = "cursor-based" -> "extractCursor"
          \* the batch is not read again in this cycle
          /\ loc' = [loc EXCEPT !.newItems = <<>>]
          /\ UNCHANGED thrown
       \/ Throw(HandlerFault(
                    Logged(Fired(obs, "onPageComplete"), "onPageComplete",
                           <<state.currentPage, loc.newItems, "threw">>),
                    "onPageComplete", result.items), "onPageComplete")
    /\ UNCHANGED <<concurrent, options, active, phase, state, result, page, context,
                   contexts, pending, outcome>>


\* variant: the scroll count survives a cycle that added items
KeepScrollCount(scrollCount) == scrollCount

\* scrollCount = 0, in the branch of a cycle that added items
ResetScrollCount(scrollCount) == 0

\* performInfiniteScroll after onPageComplete: scroll only when the merge
\* added nothing since the last cycle that added something, then the wait
\* for loadingSelector
InfiniteScrollStep ==
    /\ pc = "scroll"
    /\ IF Len(result.items) = loc.lastItemCount
       THEN \E o \in ScrollOutcomes :
              LET atCeiling == /\ PerformScroll(o)
                               /\ TruthyNum(active.maxScrolls)
                               /\ loc.scrollCount + 1 >= active.maxScrolls[1]
                  seen == [Logged(Called(obs), "performScroll",
                                  PerformScroll(o)) EXCEPT
                             !.revealFault = @ \/ o = "evaluateThrows",
                             !.stale = TRUE,
                             !.offsetUnchanged = o \in {"sameFar", "sameNear"},
                             !.cycleScrolls = IF Watched THEN @ + 1 ELSE @,
                             !.staleRun =
                                 IF ~Watched THEN @
                                 ELSE IF obs.added THEN 0 ELSE @ + 1,
                             !.ceiling = @ \/ (Watched /\ atCeiling)]
              IN  IF ~PerformScroll(o) \/ atCeiling
                  THEN /\ Stop("endReached")
                       /\ obs' = seen
                       /\ UNCHANGED thrown
                  ELSE \E w \in WaitOutcomes :
                         IF WaitEscapes(w)
                         THEN /\ Throw(Fault(Waited(seen, w),
                                             "waitForSelector", result.items),
                                       "waitForSelector")
                              /\ UNCHANGED result
                         ELSE /\ obs' = Waited(seen, w)
                              /\ loc' = [loc EXCEPT !.scrollCount = @ + 1]
                              /\ pc' = "advance"
                              /\ UNCHANGED <<result, thrown>>
       ELSE /\ loc' = [loc EXCEPT
                         !.lastItemCount = Len(result.items),
                         !.scrollCount = ResetScrollCount(loc.scrollCount)]
            /\ pc' = "advance"
            /\ obs' = [obs EXCEPT
                         !.staleRun = IF ~Watched THEN @
                                      ELSE IF obs.added THEN 0 ELSE @ + 1]
            /\ UNCHANGED <<result, thrown>>
    /\ UNCHANGED <<concurrent, options, active, phase, state, page, context,
                   contexts, pending, outcome>>

\* variant: the cycle in which no button is found is counted
LoadMoreClickCountsCycle ==
    /\ pc = "click"
    /\ \E outs \in [1..NumSelectors -> SelectorOutcomes] :
          /\ obs' = [Called(obs) EXCEPT
                        !.revealFault = @ \/ \E i \in Examined(outs) :
                            outs[i] \in {"isVisibleThrows", "clickThrows"},
                        !.buttonSeen = @ \/ \E i \in Examined(outs) :
                            outs[i] \in {"clicked", "clickThrows"},
                        !.clicked = @ \/ \E i \in Examined(outs) :
                            outs[i] \in {"clicked", "clickThrows"}]
          /\ IF ClickLoadMoreButton(outs)
             THEN /\ pc' = "content"
                  \* the batch of the last harvest is not read again
                  /\ loc' = [loc EXCEPT !.newItems = <<>>]
                  /\ UNCHANGED result
             ELSE /\ result' = [result EXCEPT !.stopReason = "endReached",
                                               !.pagesProcessed = @ + 1]
                  /\ pc' = "complete"
                  /\ loc' = NoLocals
    /\ UNCHANGED <<concurrent, options, active, phase, state, page, context,
                   contexts, thrown, pending, outcome>>

\* performLoadMoreButton: clickLoadMoreButton, then the waits, the one for
\* waitForSelector among them
LoadMoreClick ==
    /\ pc = "click"
    /\ \E outs \in [1..NumSelectors -> SelectorOutcomes] :
          LET seen == [Logged(Called(obs), "clickLoadMoreButton",
                              Search(outs, 1, NoSearch)) EXCEPT
                         !.revealFault = @ \/ \E i \in Examined(outs) :
                             outs[i] \in {"isVisibleThrows", "clickThrows"},
                         !.buttonSeen = @ \/ \E i \in Examined(outs) :
                             outs[i] \in {"clicked", "clickThrows"},
                         !.clicked = @ \/ \E i \in Examined(outs) :
                             outs[i] \in {"clicked", "clickThrows"},
                         !.search = Search(outs, 1, NoSearch)]
          IN  IF ClickLoadMoreButton(outs)
              THEN \E w \in WaitOutcomes :
                     IF WaitEscapes(w)
                     THEN /\ Throw(Fault(Waited(seen, w), "waitForSelector",
                                         result.items), "waitForSelector")
                          /\ UNCHANGED result
                     ELSE /\ obs' = Waited(seen, w)
                          /\ pc' = "content"
                          \* the batch of the last harvest is not read again
                          /\ loc' = [loc EXCEPT !.newItems = <<>>]
                          /\ UNCHANGED <<result, thrown>>
              ELSE /\ Stop("endReached")
                   /\ obs' = seen
                   /\ UNCHANGED thrown
    /\ UNCHANGED <<concurrent, options, active, phase, state, page, context,
                   contexts, pending, outcome>>

\* performNumberedPagination: navigateToNextPage
NextPage ==
    /\ pc = "navigate"
    /\ \E o \in NextPageOutcomes :
          /\ obs' = [Logged(Called(obs), "navigateToNextPage",
                             NavigateToNextPage(o)) EXCEPT
                        !.revealFault = @ \/ o \in {"isVisibleThrows",
                                "clickThrows", "loadStateTimeout"}]
          /\ IF NavigateToNextPage(o)
             THEN pc' = "advance" /\ UNCHANGED <<result, loc>>
             ELSE Stop("endReached")
    /\ UNCHANGED <<concurrent, options, active, phase, state, page, context,
                   contexts, thrown, pending, outcome>>

\* variant: the token is not recorded
RecordCursorDropped(rec, cursor) == rec

\* state.lastCursor = cursor; result.metadata.lastCursor = cursor
RecordCursor(rec, cursor) == [rec EXCEPT !.lastCursor = cursor]

\* performCursorBasedPagination: config.extractCursor(page, result.items)
ExtractCursor ==
    /\ pc = "extractCursor"
    /\ \/ /\ Throw(Fault(Logged(Called(obs), "extractCursor", "threw"),
                         "extractCursor", result.items), "extractCursor")
          /\ UNCHANGED <<state, result>>
       \/ \E nextCursor \in CursorReturns :
            /\ obs' = LET o == Logged(Called(obs), "extractCursor", nextCursor)
                       IN  IF TruthyStr(nextCursor)
                           THEN [o EXCEPT !.lastToken = nextCursor,
                                          !.unused = TRUE]
                           ELSE o
            /\ UNCHANGED thrown
            /\ IF ~TruthyStr(nextCursor)
               THEN Stop("endReached") /\ UNCHANGED state
               ELSE /\ loc' = [loc EXCEPT !.cursor = nextCursor]
                    /\ state' = RecordCursor(state, nextCursor)
                    /\ result' = RecordCursor(result, nextCursor)
                    /\ pc' = "navigateWithCursor"
    /\ UNCHANGED <<concurrent, options, active, phase, page, context, contexts, pending,
                   outcome>>

\* config.navigateWithCursor(page, cursor)
NavigateWithCursor ==
    /\ pc = "navigateWithCursor"
    /\ LET o == [Called(obs) EXCEPT !.unused = FALSE,
                                    !.navigatedWith = loc.cursor]
       IN  \/ /\ obs' = Logged(o, "navigateWithCursor",
                               <<loc.cursor, "returned">>)
              /\ pc' = "advance"
              /\ UNCHANGED <<thrown, loc>>
           \/ Throw(Fault(Logged(o, "navigateWithCursor",
                                 <<loc.cursor, "threw">>),
                          "navigateWithCursor", result.items),
                    "navigateWithCursor")
    /\ UNCHANGED <<concurrent, options, active, phase, state, result, page, context,
                   contexts, pending, outcome>>

\* variant: the end of a cycle counts the page in the state only
AdvanceStateOnly ==
    /\ pc = "advance"
    /\ state.currentPage < MaxCycles
    /\ state' = [state EXCEPT !.currentPage = @ + 1]
    /\ pc' = "loop"
    /\ obs' = [obs EXCEPT !.offsetUnchanged = FALSE, !.added = FALSE,
                          !.cycleScrolls = 0, !.waitTimedOut = FALSE]
    /\ UNCHANGED <<concurrent, options, active, phase, result, loc, page, context,
                   contexts, thrown, pending, outcome>>

\* the end of a cycle: the inter-cycle delay, state.currentPage++,
\* result.pagesProcessed++
Advance ==
    /\ pc = "advance"
    /\ state.currentPage < MaxCycles
    /\ state' = [state EXCEPT !.currentPage = @ + 1]
    /\ result' = [result EXCEPT !.pagesProcessed = @ + 1]
    /\ pc' = "loop"
    \* what the observer saw of the cycle's scroll ends with the cycle
    /\ obs' = [obs EXCEPT !.offsetUnchanged = FALSE, !.added = FALSE,
                          !.cycleScrolls = 0, !.waitTimedOut = FALSE]
    /\ UNCHANGED <<concurrent, options, active, phase, loc, page, context, contexts,
                   thrown, pending, outcome>>

(***************************************************************************)
(* extractWithPagination: the rest of the try statement.                   *)
(***************************************************************************)
\* variant: the success path without its stamp
CompletedNotStamped(res) == res

\* the success path's stamp of the result
Completed(res) == [res EXCEPT !.completed = TRUE]

\* the success path's times: `now` and `later` are its two readings of
\* Date.now()
Timed(res, now, later) ==
    [res EXCEPT !.totalTime = now - res.startTime,
                !.endTime = later,
                !.averagePageTime =
                    IF res.pagesProcessed > 0
                    THEN Quotient(now - res.startTime, res.pagesProcessed)
                    ELSE Quotient(0, 1)]

\* variant: the catch block without its stop reason
CaughtKeepsStopReason(res, errorMessage) ==
    [res EXCEPT !.errors = Append(@, errorMessage)]

\* variant: the catch block also takes back the success path's stamp
CaughtNotCompleted(res, errorMessage) ==
    [res EXCEPT !.errors = Append(@, errorMessage), !.stopReason = "error",
                !.completed = FALSE]

\* the catch block's record of the error
Caught(res, errorMessage) ==
    [res EXCEPT !.errors = Append(@, errorMessage), !.stopReason = "error"]

\* variant: a finally block that closes the page only
FinallyBlockPageOnly(o, ending) ==
    /\ page' = "closed"
    /\ UNCHANGED <<context, contexts>>
    /\ obs' = [o EXCEPT !.pageCloses = @ + 1]
    /\ pending' = ending
    /\ outcome' = IF ending = "return" THEN "resolved" ELSE "rejected"
    /\ pc' = "done"

\* variant: a finally block that also reports completion
FinallyBlockFiresComplete(o, ending) ==
    /\ page' = "closed"
    /\ context' = "closed"
    /\ contexts' = contexts \ {ThisContext}
    /\ obs' = [Fired(o, "onComplete") EXCEPT !.pageCloses = @ + 1,
                                             !.ctxCloses = @ + 1]
    /\ pending' = ending
    /\ outcome' = IF ending = "return" THEN "resolved" ELSE "rejected"
    /\ pc' = "done"

\* the finally block: page.close(), then context.close(), whose close
\* event removes the context from the tracked set; then the call settles
\* the way the try statement ended
FinallyBlock(o, ending) ==
    /\ page' = "closed"
    /\ context' = "closed"
    /\ contexts' = contexts \ {ThisContext}
    /\ obs' = [o EXCEPT !.pageCloses = @ + 1, !.ctxCloses = @ + 1]
    /\ pending' = ending
    /\ outcome' = IF ending = "return" THEN "resolved" ELSE "rejected"
    /\ pc' = "done"

\* performPagination returned: result.completed = true, the times,
\* onComplete(result),
\* return result (through the finally block)
Complete ==
    /\ pc = "complete"
    /\ \E now \in LaterReadings :
         \E later \in {t \in LaterReadings : t >= now} :
            result' = Timed(Completed(result), now, later)
    /\ \/ /\ FinallyBlock(Logged(Fired(obs, "onComplete"), "onComplete",
                                 "returned"), "return")
          /\ UNCHANGED thrown
       \* thrown after performPagination has returned: not the primary's
       \/ /\ obs' = [HandlerFault(Logged(Fired(obs, "onComplete"),
                                         "onComplete", "threw"),
                                  "onComplete", result.items)
                        EXCEPT !.primaryFault = obs.primaryFault]
          /\ thrown' = Some(ErrorMessage("onComplete"))
          /\ pc' = "catch"
          /\ UNCHANGED <<page, context, contexts, pending, outcome>>
    /\ UNCHANGED <<concurrent, options, active, phase, state, loc>>

\* the catch block: record the error, onError(message, currentPage, state),
\* return result (through the finally block); an error thrown by onError
\* leaves the function instead
Catch ==
    /\ pc = "catch"
    /\ result' = Caught(result, thrown[1])
    /\ LET told == [Fired(obs, "onError") EXCEPT
                      !.onErrorArgs = Append(@, <<thrown[1], state.currentPage>>)]
       IN  \/ /\ FinallyBlock(Logged(told, "onError",
                                     <<thrown[1], state.currentPage,
                                       "returned">>), "return")
              /\ thrown' = <<>>
           \/ /\ FinallyBlock([Logged(told, "onError",
                                      <<thrown[1], state.currentPage, "threw">>)
                                 EXCEPT !.handlerThrew = TRUE,
                                        !.onErrorThrew = TRUE], "throw")
              /\ thrown' = Some(ErrorMessage("onError"))
    /\ UNCHANGED <<concurrent, options, active, phase, state, loc>>

Next ==
    \/ GetPage
    \/ OnPageStart
    \/ PerformPagination
    \/ HybridFallback
    \/ LoopGuard
    \/ PageContent
    \/ ExtractItems
    \/ OnPageComplete
    \/ InfiniteScrollStep
    \/ LoadMoreClick
    \/ NextPage
    \/ ExtractCursor
    \/ NavigateWithCursor
    \/ Advance
    \/ Complete
    \/ Catch

Spec == Init /\ [][Next]_vars

\* the runs whose configuration sets a page cap of 1 or more and, but for a
\* hybrid configuration's item cap, nothing else that could end them: no
\* maxScrolls, no stopCondition, and no isDuplicate; every call the run
\* awaits returns or throws, so a run that can take a step takes it
InitCapped ==
    /\ Init
    /\ TruthyNum(options.pagination.maxPages)
    /\ options.pagination.type # "hybrid" =>
          options.pagination.maxItems = Undefined
    /\ options.pagination.maxScrolls = Undefined
    /\ ~options.pagination.stopCondition
    /\ ~options.hasIsDuplicate

SpecCapped == InitCapped /\ [][Next]_vars /\ WF_vars(Next)

(***************************************************************************)
(* Two runs on one service instance.  Each run is a call of                *)
(* extractWithPagination with a numbered-pagination configuration whose    *)
(* maxPages is MaxCap, no isDuplicate and no handlers; a step is an await   *)
(* of the call, or consecutive awaits on its own page, with the            *)
(* synchronous code that follows, so the runs interleave between any two   *)
(* steps.  The surface hands out a new context object for every            *)
(* newContext; the page opened in context c is page c.                     *)
(***************************************************************************)
\* the url a run is called with: each run asks for a document of its own
Url(r) == r

\* a context the surface has created, with what happened to it and its page
NewContext(b) ==
    [browser |-> b, hasPage |-> FALSE, url |-> 0, served |-> <<>>,
     navigations |-> 0, pageCloses |-> <<>>, contextCloses |-> <<>>]

\* the k-th item of the document at a url
Item(url, k) == <<url, k>>

\* variant: the page kept in a field of the service, which holds the page
\* opened last
PageOpenedLast(r) ==
    CHOOSE c \in 1..Len(surface.opened) :
        /\ surface.opened[c].hasPage
        /\ \A d \in (c + 1)..Len(surface.opened) : ~surface.opened[d].hasPage

\* `page` of `const { page, context } = await this.getPage(...)`: a local
\* of the call
OwnPage(r) == run[r].page

\* `context` of the same declaration
OwnContext(r) == run[r].context

\* what a step of run r leaves alone: the other run, the single run
IdleSingleRun ==
    UNCHANGED <<options, active, phase, pc, state, result, loc, page, context,
                thrown, pending, outcome, obs, twin>>

\* getBrowser up to its await: `if (!this.browser)`
GetBrowser(r) ==
    /\ run[r].pc = "getBrowser"
    /\ run' = [run EXCEPT
                 ![r].pc = IF browser = NoBrowser THEN "launch"
                           ELSE "newContext",
                 ![r].browser = browser]
    /\ UNCHANGED <<browser, surface, contexts>>
    /\ IdleSingleRun

\* this.browser = await chromium.launch(...); return this.browser
Launch(r) ==
    /\ run[r].pc = "launch"
    /\ surface' = [surface EXCEPT !.launched = @ + 1]
    /\ browser' = surface.launched + 1
    /\ run' = [run EXCEPT ![r].pc = "newContext",
                          ![r].browser = surface.launched + 1]
    /\ UNCHANGED contexts
    /\ IdleSingleRun

\* createContext after getBrowser: browser.newContext(...),
\* this.contexts.add(context)
CreateContext(r) ==
    /\ run[r].pc = "newContext"
    /\ surface' = [surface EXCEPT
                     !.opened = Append(@, NewContext(run[r].browser))]
    /\ contexts' = contexts \cup {Len(surface.opened) + 1}
    /\ run' = [run EXCEPT ![r].pc = "newPage",
                          ![r].context = Len(surface.opened) + 1]
    /\ UNCHANGED browser
    /\ IdleSingleRun

\* getPage: page = await context.newPage()
NewPage(r) ==
    /\ run[r].pc = "newPage"
    /\ surface' = [surface EXCEPT !.opened[OwnContext(r)].hasPage = TRUE]
    /\ run' = [run EXCEPT ![r].pc = "goto", ![r].page = OwnContext(r)]
    /\ UNCHANGED <<browser, contexts>>
    /\ IdleSingleRun

\* getPage: page.goto(url), whose failure rejects the call; then the first
\* loop guard, with currentPage 0
Goto(r) ==
    /\ run[r].pc = "goto"
    /\ \/ /\ surface' = [surface EXCEPT !.opened[run[r].page].url = Url(r)]
          /\ run' = [run EXCEPT ![r].pc = "harvest"]
       \/ /\ run' = [run EXCEPT ![r].pc = "done", ![r].outcome = "rejected"]
          /\ UNCHANGED surface
    /\ UNCHANGED <<browser, contexts>>
    /\ IdleSingleRun

\* a cycle up to navigateToNextPage: page.content(), extractItems(page, html)
\* - the document hands out its next item or none - and processNewItems; an
\* error thrown by the extractor is recorded by the catch block
Harvest(r) ==
    /\ run[r].pc = "harvest"
    /\ LET p == OwnPage(r)
           next == Item(surface.opened[p].url,
                        Len(surface.opened[p].served) + 1)
       IN  \/ \E newItems \in {<<>>, <<next>>} :
                /\ surface' = [surface EXCEPT
                                 !.opened[p].served = @ \o newItems]
                /\ run' = [run EXCEPT ![r].items = @ \o newItems,
                                      ![r].pc = "navigate"]
           \/ /\ run' = [run EXCEPT
                            ![r].errors = Append(@, ErrorMessage("extractItems")),
                            ![r].stopReason = "error",
                            ![r].pc = "closePage"]
              /\ UNCHANGED surface
    /\ UNCHANGED <<browser, contexts>>
    /\ IdleSingleRun

\* the rest of the cycle: navigateToNextPage(page, config), the counters and
\* the next loop guard; a run that leaves the loop is stamped completed
Navigate(r) ==
    /\ run[r].pc = "navigate"
    /\ \/ /\ run' = [run EXCEPT ![r].stopReason = "endReached",
                                 ![r].completed = TRUE,
                                 ![r].pc = "closePage"]
          /\ UNCHANGED surface
       \/ /\ surface' = [surface EXCEPT
                            !.opened[OwnPage(r)].navigations = @ + 1]
          /\ run' = [run EXCEPT
                       ![r].currentPage = @ + 1,
                       ![r].pagesProcessed = @ + 1,
                       ![r].stopReason =
                           IF run[r].currentPage + 1 >= MaxCap
                           THEN "maxPages" ELSE @,
                       ![r].completed = run[r].currentPage + 1 >= MaxCap,
                       ![r].pc = IF run[r].currentPage + 1 >= MaxCap
                                 THEN "closePage" ELSE "harvest"]
    /\ UNCHANGED <<browser, contexts>>
    /\ IdleSingleRun

\* finally: await page.close()
ClosePage(r) ==
    /\ run[r].pc = "closePage"
    /\ surface' = [surface EXCEPT
                     !.opened[OwnPage(r)].pageCloses = Append(@, r)]
    /\ run' = [run EXCEPT ![r].pc = "closeContext"]
    /\ UNCHANGED <<browser, contexts>>
    /\ IdleSingleRun

\* finally: await context.close(), whose close event removes the context
\* from the tracked set; the call returns its result
CloseContext(r) ==
    /\ run[r].pc = "closeContext"
    /\ surface' = [surface EXCEPT
                     !.opened[OwnContext(r)].contextCloses = Append(@, r)]
    /\ contexts' = contexts \ {OwnContext(r)}
    /\ run' = [run EXCEPT ![r].pc = "done", ![r].outcome = "resolved"]
    /\ UNCHANGED browser
    /\ IdleSingleRun

InitConcurrent ==
    /\ options = [pagination |-> NoConfig, hasIsDuplicate |-> FALSE,
                  includeDuplicates |-> FALSE]
    /\ active = NoConfig
    /\ phase = "none"
    /\ pc = "idle"
    /\ state = <<>>
    /\ result = <<>>
    /\ loc = NoLocals
    /\ page = "none"
    /\ context = "none"
    /\ thrown = <<>>
    /\ pending = "none"
    /\ outcome = "pending"
    /\ obs = <<>>
    /\ contexts = {}
    /\ browser = NoBrowser
    /\ surface = NoSurface
    /\ run = [r \in Runs |-> [NewRun EXCEPT !.pc = "getBrowser"]]
    /\ twin = NoTwin

NextConcurrent ==
    \E r \in Runs :
        \/ GetBrowser(r)
        \/ Launch(r)
        \/ CreateContext(r)
        \/ NewPage(r)
        \/ Goto(r)
        \/ Harvest(r)
        \/ Navigate(r)
        \/ ClosePage(r)
        \/ CloseContext(r)

SpecConcurrent == InitConcurrent /\ [][NextConcurrent]_vars


(***************************************************************************)
(* The claims.                                                             *)
(***************************************************************************)
Opened == obs.openFailed = "none"

Settled == outcome # "pending"

\* C1: in a run whose document opened, the page and the context are each
\* closed exactly once before the call settles, on the success path and on
\* the error path, and no extractor, reveal or handler call happens on a
\* closed page.
C1_ReleasedExactlyOnce ==
    /\ obs.pageCloses <= 1
    /\ obs.ctxCloses <= 1
    /\ ~obs.late
    /\ (Opened /\ Settled) =>
          /\ page = "closed" /\ obs.pageCloses = 1
          /\ context = "closed" /\ obs.ctxCloses = 1
          /\ pc = "done"

\* C1 witness: a run that failed in its second cycle has settled with the
\* document released.
C1_Witness ==
    /\ Settled /\ Opened
    /\ obs.fault.by = "extractItems" /\ obs.fault.page = 1
    /\ page = "closed" /\ context = "closed"

\* the error result the catch block returns
ErrorResult ==
    /\ outcome = "resolved"
    /\ result.stopReason = "error"
    /\ ~result.completed
    /\ Len(result.errors) = 1
    /\ obs.fired.onError = 1
    /\ obs.fired.onComplete = 0

HarvestThrew == obs.primaryFault = "harvest" \/ obs.fault.by \in HarvestCalls

C3_ItemsWithinMaxItems ==
    TruthyNum(options.pagination.maxItems) =>
        Len(result.items) <= options.pagination.maxItems[1]

\* C4 as stated: with maxPages set on the caller's configuration, hybrid
\* included, currentPage and pagesProcessed never exceed it.
C4_PagesWithinMaxPages ==
    TruthyNum(options.pagination.maxPages) =>
        /\ state.currentPage <= options.pagination.maxPages[1]
        /\ result.pagesProcessed <= options.pagination.maxPages[1]

\* C5: with an isDuplicate predicate and includeDuplicates false, no two
\* items of result.items are duplicates of each other (share a key).
C5_NoDuplicates ==
    (options.hasIsDuplicate /\ ~options.includeDuplicates) =>
        \A i, j \in 1..Len(result.items) :
            i < j => KeyOf(result.items[i]) # KeyOf(result.items[j])

\* C5 witness: after a hybrid switch, the fallback's batch <<2, 3>> has been
\* merged into the primary's <<1>>: item 2, a duplicate of item 1 by its key,
\* was rejected and item 3 accepted.
C5_Witness ==
    /\ options.hasIsDuplicate /\ ~options.includeDuplicates
    /\ phase = "fallback"
    /\ pc = "onPageComplete"
    /\ loc.newItems = <<2, 3>>
    /\ result.items = <<1, 3>>

\* C6: in a returned result, when no handler threw, completed = true iff
\* stopReason is not 'error' iff errors is empty, and stopReason is one of
\* the five stop reasons.
C6_FaultIndicatorsAgree ==
    (pc = "done" /\ outcome = "resolved" /\ ~obs.handlerThrew) =>
        /\ result.completed <=> result.stopReason # "error"
        /\ result.completed <=> result.errors = <<>>
        /\ result.stopReason \in StopReasons

\* C6 witness: a hybrid run whose primary threw and whose fallback stopped on
\* its page cap is returned as completed.
C6_Witness ==
    /\ pc = "done" /\ outcome = "resolved" /\ ~obs.handlerThrew
    /\ obs.primaryFault = "harvest"
    /\ result.completed /\ result.stopReason = "maxPages"

\* C7: if opening the document fails, the call rejects with that error before
\* any cycle: no result is returned, the extractor is never invoked and no
\* handler is fired.
C7_OpenFailureRejects ==
    ~Opened =>
        /\ pc = "done"
        /\ outcome = "rejected"
        /\ thrown = Some(ErrorMessage(obs.openFailed))
        /\ pending = "none"
        /\ ~obs.extractorCalled
        /\ obs.fired = NoEvents
        /\ obs.onErrorArgs = <<>>
        /\ state.currentPage = 0

\* C7 witness: the initial waitForSelector timed out.
C7_Witness == obs.openFailed = "waitForSelector" /\ outcome = "rejected"

\* C8 as stated: when document-open throws, the run produces an error-state
\* result with completed false, one error and no items.
C8_Original ==
    (~Opened /\ pc = "done") =>
        /\ outcome = "resolved"
        /\ ~result.completed
        /\ Len(result.errors) = 1
        /\ Len(result.items) = 0

\* C8 amended: when document-open throws, the run rejects and produces no
\* result; the result under construction has completed false, no error
\* recorded, the initial stop reason and no items.
C8_Amended ==
    (~Opened /\ pc = "done") =>
        /\ outcome = "rejected"
        /\ ~result.completed
        /\ Len(result.errors) = 0
        /\ result.stopReason = "endReached"
        /\ Len(result.items) = 0

\* C8 witness: page.goto threw.
C8_Witness == obs.openFailed = "goto" /\ pc = "done" /\ result.errors = <<>>

\* C9 as stated: when getPage fails after the context has been created, the
\* context is closed before the failure propagates, so the tracked set is
\* what it was before the run.
C9_ContextReleasedOnOpenFailure ==
    (~Opened /\ Settled) => (contexts = {} /\ context # "open")

\* C10 as stated: a failure of the reveal action itself is recorded in
\* result.errors and ends the run with stopReason 'error' and completed
\* false.
C10_RevealFailureIsError ==
    (pc = "done" /\ obs.revealFault) =>
        /\ result.stopReason = "error"
        /\ ~result.completed
        /\ result.errors # <<>>

\* the page cap / the item cap of the running executor's configuration is in
\* effect (set, and not zero) and met
PageCapMet ==
    TruthyNum(active.maxPages) /\ state.currentPage >= active.maxPages[1]

ItemCapMet ==
    TruthyNum(active.maxItems) /\ Len(result.items) >= active.maxItems[1]

\* a cycle has passed the loop guard: its harvest or reveal action is next
\* (load-more's harvest before the loop is not part of a cycle)
CycleStarted ==
    \/ pc = "click"
    \/ pc \in {"content", "extract"} /\ ~loc.initial

\* C11: in every executor the caps in effect are evaluated at the top of every
\* cycle, before its harvest or reveal action, the page cap before the item
\* cap: no cycle starts with a cap met; at the guard, a met page cap stops the
\* run with 'maxPages' also when the item cap is met, and a met item cap alone
\* stops it with 'maxItems'.
C11_CapsAtTopOfCycle ==
    /\ [](CycleStarted => ~PageCapMet /\ ~ItemCapMet)
    /\ [][pc = "loop" =>
            /\ PageCapMet =>
                  pc' = "complete" /\ result'.stopReason = "maxPages"
            /\ (ItemCapMet /\ ~PageCapMet) =>
                  pc' = "complete" /\ result'.stopReason = "maxItems"
            /\ (~PageCapMet /\ ~ItemCapMet) =>
                  pc' \in {"content", "click"} /\ result' = result]_vars

\* C11 witness: both caps became true during the first cycle and the guard of
\* the second has stopped the run on the page cap.
C11_Witness ==
    /\ pc = "complete" /\ phase = "none"
    /\ PageCapMet /\ ItemCapMet
    /\ state.currentPage = 1
    /\ result.stopReason = "maxPages"

\* C12 as stated: a supplied stopCondition that is satisfied at the top of a
\* cycle, with no cap met, stops the run before that cycle (with stopReason
\* 'customCondition'): no cycle starts with the condition satisfied.
C12_StopConditionStops ==
    (CycleStarted /\ active.stopCondition) =>
        ~StopCondition(result.items, state.currentPage)

Max(a, b) == IF a >= b THEN a ELSE b

\* C13 as stated: in every returned result averagePageTime equals
\* totalTime / max(pagesProcessed, 1).
C13_AveragePageTime ==
    (pc = "done" /\ outcome = "resolved") =>
        result.averagePageTime[1] * Max(result.pagesProcessed, 1)
            = result.totalTime * result.averagePageTime[2]

\* C14 as stated: on normal exhaustion and on a thrown error alike the times
\* are stamped before the result is returned, so endTime >= startTime in
\* every returned result (of a run whose handlers return).
C14_EndTimeStamped ==
    (pc = "done" /\ outcome = "resolved" /\ ~obs.handlerThrew) =>
        result.endTime >= result.startTime

\* C15 as stated: numbered pagination over a site of N pages - the next
\* control was visible on every page but the last, where it was not, and no
\* cap fired - harvests the N pages and returns pagesProcessed = N with
\* stopReason 'endReached'.
C15_NumberedPagesCounted ==
    (/\ pc = "done" /\ outcome = "resolved"
     /\ options.pagination.type = "numbered-pagination"
     /\ result.stopReason = "endReached"
     /\ ~obs.revealFault /\ ~obs.handlerThrew) =>
        result.pagesProcessed = obs.harvested

\* C16: a load-more run in which no selector ever matched a visible button,
\* nothing threw and the harvest before the loop did not meet a cap stops in
\* its first cycle with 'endReached', pagesProcessed 0, no errors and no
\* click, and its items are the accepted items of that one harvest.
C16_LoadMoreNeverMatches ==
    /\ []((/\ pc = "done" /\ outcome = "resolved"
           /\ options.pagination.type = "load-more-button"
           /\ ~obs.buttonSeen /\ ~obs.revealFault
           /\ obs.fault.by = "none"
           /\ result.stopReason \notin {"maxPages", "maxItems"}) =>
              /\ result.stopReason = "endReached"
              /\ result.completed
              /\ result.pagesProcessed = 0 /\ state.currentPage = 0
              /\ result.errors = <<>>
              /\ ~obs.clicked
              /\ obs.harvested = 1)
    /\ [][(/\ pc = "click" /\ pc' = "complete"
           /\ options.pagination.type = "load-more-button"
           /\ ~obs'.buttonSeen /\ ~obs'.revealFault) =>
              result'.items = Accumulate(loc.newItems, <<>>)]_vars
    /\ [][pc = "complete" => result'.items = result.items]_vars

\* C16 witness: the harvest before the loop returned items, no button was
\* found, and the run has returned them.
C16_Witness ==
    /\ pc = "done" /\ outcome = "resolved"
    /\ options.pagination.type = "load-more-button"
    /\ ~obs.buttonSeen /\ ~obs.revealFault /\ obs.fault.by = "none"
    /\ options.hasIsDuplicate /\ ~options.includeDuplicates
    /\ result.items = <<1, 3>>
    /\ result.stopReason = "endReached" /\ result.pagesProcessed = 0

\* an infinite-scroll run with an item cap in effect in which every cycle so
\* far has added items
FreshInfiniteScroll ==
    /\ options.pagination.type = "infinite-scroll"
    /\ TruthyNum(options.pagination.maxItems)
    /\ ~obs.stale

\* C17: an infinite-scroll run with maxItems = M whose every cycle adds
\* accepted items, with no other cap firing and nothing thrown, stops with
\* 'maxItems' at the first cycle boundary with M items or more: no cycle
\* starts with the cap met, and the returned result has stopReason 'maxItems'
\* and at least M items.
C17_StopsOnMaxItems ==
    /\ (FreshInfiniteScroll /\ CycleStarted) =>
          Len(result.items) < options.pagination.maxItems[1]
    /\ (/\ FreshInfiniteScroll
        /\ pc = "done" /\ outcome = "resolved"
        /\ obs.fault.by = "none"
        /\ result.stopReason # "maxPages") =>
          /\ result.stopReason = "maxItems"
          /\ result.completed
          /\ Len(result.items) >= options.pagination.maxItems[1]

\* C17 witness: with maxItems = MaxCap, cycles that added items have taken the
\* run past the cap, and it has returned more items than the cap.
C17_Witness ==
    /\ FreshInfiniteScroll
    /\ pc = "done" /\ outcome = "resolved" /\ obs.fault.by = "none"
    /\ options.pagination.maxItems = Some(MaxCap)
    /\ result.stopReason = "maxItems"
    /\ result.pagesProcessed >= 2
    /\ Len(result.items) > MaxCap

\* C18: state.lastCursor and result.metadata.lastCursor are equal at every
\* point and hold the most recent non-empty token extractCursor returned
\* (absent if none); a null or empty token stops the run with 'endReached'
\* and leaves them alone; navigateWithCursor is invoked with the token just
\* returned, once for each token.
C18_LastCursor ==
    /\ [](/\ state.lastCursor = result.lastCursor
          /\ result.lastCursor = obs.lastToken
          /\ obs.unused <=> pc = "navigateWithCursor"
          /\ pc = "navigateWithCursor" =>
                loc.cursor = obs.lastToken /\ TruthyStr(loc.cursor)
          /\ ~obs.unused => obs.navigatedWith = obs.lastToken)
    /\ [][(pc = "extractCursor" /\ obs'.lastToken = obs.lastToken
                                /\ pc' # "navigateWithCursor"
                                /\ thrown' = <<>>) =>
              /\ pc' = "complete"
              /\ result'.stopReason = "endReached"
              /\ result'.lastCursor = result.lastCursor
              /\ state' = state]_vars

\* C18 witness: extractCursor returned "c1" in the first cycle and nothing in
\* the second; the run has ended on 'endReached' with lastCursor "c1".
C18_Witness ==
    /\ pc = "done" /\ outcome = "resolved"
    /\ options.pagination.type = "cursor-based"
    /\ result.stopReason = "endReached"
    /\ result.pagesProcessed = 1
    /\ result.lastCursor = Some("c1")
    /\ obs.navigatedWith = Some("c1")

IsPrefix(s, t) == Len(s) <= Len(t) /\ SubSeq(t, 1, Len(s)) = s

\* C19: when a hybrid run's primary strategy throws, the fallback executor is
\* entered with state and result as they were at the throw (items,
\* totalItems, currentPage, pagesProcessed, lastCursor), and from then on
\* items are only appended, so the primary's items are a prefix of the final
\* items.
C19_FallbackContinues ==
    [][/\ pc = "hybridCatch" =>
            /\ pc' = "performPagination" /\ phase' = "fallback"
            /\ state' = state
            /\ result' = result
       /\ phase' = "fallback" => IsPrefix(result.items, result'.items)]_vars

\* C19 witness: the primary completed a cycle with item 1 and threw in its
\* second; the fallback, a load-more strategy, has added item 3 in its
\* harvest before the loop and the run has returned both.
C19_Witness ==
    /\ pc = "done" /\ outcome = "resolved"
    /\ phase = "fallback" /\ active.type = "load-more-button"
    /\ obs.primaryFault = "harvest"
    /\ state.currentPage = 1 /\ result.pagesProcessed = 1
    /\ result.items = <<1, 3>>

OutsideExecutors ==
    {"getPage", "onPageStart", "performPagination", "catch", "done"}

\* C21: a run with pagination.type = 'time-based' fails fast: no harvest or
\* reveal step is ever reached and the extractor is never invoked; once the
\* document is open it is closed when the call settles; and when no handler
\* throws the call resolves with stopReason 'error', completed false, no
\* items and errors holding exactly the not-implemented message.
C21_TimeBasedFailsFast ==
    options.pagination.type = "time-based" =>
        /\ pc \in OutsideExecutors
        /\ ~obs.extractorCalled
        /\ ~obs.buttonSeen /\ ~obs.clicked /\ ~obs.stale
        /\ obs.navigatedWith = Undefined /\ obs.harvested = 0
        /\ result.items = <<>>
        /\ ~result.completed
        /\ obs.fired.onComplete = 0
        /\ (Settled /\ Opened) => (page = "closed" /\ context = "closed")
        /\ (Settled /\ Opened /\ ~obs.handlerThrew) =>
              /\ outcome = "resolved"
              /\ result.stopReason = "error"
              /\ result.errors =
                    <<"Time-based pagination not yet implemented">>
              /\ obs.fired.onError = 1

\* C21 witness: a time-based run has returned its error result.
C21_Witness ==
    /\ options.pagination.type = "time-based"
    /\ pc = "done" /\ outcome = "resolved" /\ ~obs.handlerThrew
    /\ obs.fault.by = "time-based"
    /\ result.stopReason = "error"
    /\ page = "closed"

\* C22 as stated: onItemsExtracted is fired exactly once for each cycle index:
\* no index is passed to it twice, in any strategy, load-more with its harvest
\* before the loop included.
C22_Original ==
    \A i, j \in 1..Len(obs.extractedPages) :
        i < j => obs.extractedPages[i] # obs.extractedPages[j]

\* C22 amended: onItemsExtracted is fired exactly once per harvest - once for
\* every batch the extractor returns, load-more's harvest before the loop
\* included - with the complete batch before deduplication as its first
\* argument, whatever isDuplicate and includeDuplicates are, and with
\* state.currentPage as its page number; the page numbers passed never
\* decrease, and one cycle index can be passed more than once.
C22_Amended ==
    /\ Len(obs.extractedPages) = obs.harvested
    /\ obs.fullBatch
    /\ \A i, j \in 1..Len(obs.extractedPages) :
          i < j => obs.extractedPages[i] <= obs.extractedPages[j]
    /\ \A i \in 1..Len(obs.extractedPages) :
          obs.extractedPages[i] <= state.currentPage
    /\ pc \in {"onPageComplete", "scroll", "navigate", "extractCursor",
               "navigateWithCursor", "advance"} =>
          /\ obs.extractedPages # <<>>
          /\ obs.extractedPages[Len(obs.extractedPages)] = state.currentPage

\* C22 witness: a load-more run with isDuplicate has harvested twice, before
\* the loop and in its first cycle, the second batch holding a duplicate that
\* was rejected; onItemsExtracted was called with index 0 both times.
C22_Witness ==
    /\ options.pagination.type = "load-more-button"
    /\ options.hasIsDuplicate /\ ~options.includeDuplicates
    /\ pc = "onPageComplete"
    /\ loc.newItems = <<2, 3>> /\ result.items = <<1, 3>>
    /\ obs.harvested = 2
    /\ obs.extractedPages = <<0, 0>>

\* s can be obtained from t by deleting elements
RECURSIVE IsSubsequence(_, _)
IsSubsequence(s, t) ==
    IF s = <<>> THEN TRUE
    ELSE IF t = <<>> THEN FALSE
    ELSE IF Head(s) = Head(t)
    THEN IsSubsequence(Tail(s), Tail(t)) \/ IsSubsequence(s, Tail(t))
    ELSE IsSubsequence(s, Tail(t))

\* C23: result.items is append-only and in discovery order: every step leaves
\* the items it had at their indices; a harvest appends items of its batch in
\* the batch's order; and when no isDuplicate is supplied or includeDuplicates
\* is true every harvest so far has appended its whole batch, so result.items
\* is the concatenation of the batches in harvest order.
C23_AppendOnly ==
    /\ []obs.wholeBatches
    /\ [][/\ IsPrefix(result.items, result'.items)
          /\ obs'.harvested = obs.harvested => result'.items = result.items
          /\ (pc = "extract" /\ pc' \in {"onPageComplete", "loop"}) =>
                /\ IsSubsequence(SubSeq(result'.items, Len(result.items) + 1,
                                        Len(result'.items)), loc'.newItems)
                /\ AcceptsAll =>
                      result'.items = result.items \o loc'.newItems]_vars

\* C23 witness: with includeDuplicates true, two harvests returned <<1, 2>>
\* and <<1>>; the run has returned <<1, 2, 1>>.
C23_Witness ==
    /\ options.hasIsDuplicate /\ options.includeDuplicates
    /\ pc = "done" /\ outcome = "resolved"
    /\ obs.harvested = 2
    /\ result.items = <<1, 2, 1>>

\* C24: state.totalItems equals the length of result.items at every point of
\* the run, so at every handler invocation and at return: a rejected duplicate
\* changes neither and a duplicate appended under includeDuplicates increments
\* both.
C24_TotalItemsIsLength == state.totalItems = Len(result.items)

\* C24 witness: of the batch <<1, 2>> the duplicate 2 was rejected: one item
\* accepted and counted when onPageComplete is about to be called.
C24_Witness ==
    /\ options.hasIsDuplicate /\ ~options.includeDuplicates
    /\ pc = "onPageComplete"
    /\ loc.newItems = <<1, 2>>
    /\ result.items = <<1>>
    /\ state.totalItems = 1

\* the run that holds context c
Holders(c) == { r \in Runs : run[r].context = c }

\* C25: of two runs interleaved at every await, each has a context and a page
\* no other run holds; its items are exactly the items its own page has
\* served, all of its own url, and its counters the navigations of its own
\* page, so its result is the one of the run alone; a page and a context are
\* closed by the run that holds them only, once, and a run that has returned
\* has closed its own.
C25_RunsAreIsolated ==
    /\ \A r \in Runs :
          /\ run[r].context # 0 => Holders(run[r].context) = {r}
          /\ run[r].page \in {0, run[r].context}
          /\ run[r].page # 0 =>
                /\ run[r].items = surface.opened[run[r].page].served
                /\ run[r].pagesProcessed =
                      surface.opened[run[r].page].navigations
                /\ run[r].currentPage = run[r].pagesProcessed
          /\ \A i \in 1..Len(run[r].items) : run[r].items[i][1] = Url(r)
          /\ run[r].outcome = "resolved" =>
                /\ surface.opened[run[r].page].pageCloses = <<r>>
                /\ surface.opened[run[r].context].contextCloses = <<r>>
                /\ run[r].context \notin contexts
                /\ run[r].completed <=> run[r].errors = <<>>
    /\ \A c \in 1..Len(surface.opened) :
          /\ \A i \in 1..Len(surface.opened[c].pageCloses) :
                surface.opened[c].pageCloses[i] \in Holders(c)
          /\ \A i \in 1..Len(surface.opened[c].contextCloses) :
                surface.opened[c].contextCloses[i] \in Holders(c)
          /\ Len(surface.opened[c].pageCloses) <= 1
          /\ Len(surface.opened[c].contextCloses) <= 1

\* C25 witness: run 2 created its context first and run 1 its page last; both
\* harvested while the other's page was open; run 1 has returned its own
\* items while run 2 is still in its cycle.
C25_Witness ==
    /\ run[2].context = 1 /\ run[1].context = 2
    /\ run[1].outcome = "resolved" /\ run[1].items = <<Item(1, 1)>>
    /\ run[2].pc = "navigate" /\ run[2].items = <<Item(2, 1), Item(2, 2)>>
    /\ surface.opened[1].pageCloses = <<>>

\* C26: the stop-policy check is idempotent: at every point of a run, a
\* second evaluation of shouldContinuePagination right after a first, on the
\* same config and state, returns the verdict of the first and leaves the
\* result as the first left it; and the first changes nothing of the result
\* but stopReason.
C26_StopPolicyIdempotent ==
    LET first == ShouldContinuePagination(active, state, result)
        once == ResultAfterShouldContinue(active, state, result)
        second == ShouldContinuePagination(active, state, once)
        twice == ResultAfterShouldContinue(active, state, once)
    IN  /\ second = first
        /\ twice = once
        /\ once = [result EXCEPT !.stopReason = once.stopReason]
        /\ first = "continue" => once = result

\* C26 witness: at a loop guard the item cap is met and the result still
\* carries its initial stop reason, so the first evaluation writes 'maxItems'.
C26_Witness ==
    /\ pc = "loop"
    /\ ShouldContinuePagination(active, state, result) = "maxItems"
    /\ result.stopReason = "endReached"
    /\ state.currentPage = 1

\* C27 as stated: in infinite scroll, a scroll attempt that leaves the scroll
\* offset unchanged stops the run in that cycle with 'endReached': no cycle
\* goes on to its end after such a scroll.
C27_UnmovedScrollStops ==
    (active.type = "infinite-scroll" /\ obs.offsetUnchanged) =>
        /\ pc \notin {"advance", "loop", "content", "extract"}
        /\ result.stopReason = "endReached"

\* a cycle is under way: past its loop guard and not yet at the next
InCycle ==
    \/ CycleStarted
    \/ pc \in {"onPageComplete", "scroll", "navigate", "extractCursor",
               "navigateWithCursor", "advance"}

\* C28: a run whose executor runs under a configuration with maxPages >= 1
\* terminates, every awaited call returning or throwing: from any point at
\* which such a configuration is the active one the call settles (or a hybrid
\* run switches to a configuration without the cap); a cycle under the cap
\* starts only below it, so at most maxPages cycles complete; and the settled
\* call has closed the document it opened and, unless onError threw, returned
\* a result.
C28_CappedRunTerminates ==
    /\ TruthyNum(active.maxPages) ~>
          (pc = "done" \/ ~TruthyNum(active.maxPages))
    /\ []((InCycle /\ TruthyNum(active.maxPages)) =>
              state.currentPage < active.maxPages[1])
    /\ []((pc = "done" /\ Opened) =>
              /\ page = "closed" /\ context = "closed"
              /\ ~obs.onErrorThrew => outcome = "resolved")

\* C28 witness: an infinite-scroll run with maxPages = MaxCap and no other cap
\* whose every cycle scrolled on without new items has been stopped by the
\* page cap after MaxCap cycles and has returned.
C28_Witness ==
    /\ options.pagination.type = "infinite-scroll"
    /\ options.pagination.maxPages = Some(MaxCap)
    /\ options.pagination.maxItems = Undefined
    /\ options.pagination.maxScrolls = Undefined
    /\ pc = "done" /\ outcome = "resolved"
    /\ result.items = <<>>
    /\ state.currentPage = MaxCap
    /\ result.stopReason = "maxPages"
    /\ page = "closed"

\* C29: in an infinite-scroll run that is not hybrid, a cycle attempts a
\* scroll if and only if its merge added no item, and at most once; the count
\* held against maxScrolls is the number of consecutive cycles without new
\* items, a cycle that adds items setting it to zero; a cycle goes on only
\* below the ceiling, and the run is stopped on the ceiling, with
\* 'endReached', only in the last of maxScrolls such cycles in a row.
C29_ScrollOnlyWhenStale ==
    options.pagination.type = "infinite-scroll" =>
        /\ obs.cycleScrolls <= 1
        /\ obs.cycleScrolls = 1 => ~obs.added
        /\ pc = "advance" =>
              /\ ~obs.added => obs.cycleScrolls = 1
              /\ loc.scrollCount = obs.staleRun
              /\ TruthyNum(active.maxScrolls) =>
                    loc.scrollCount < active.maxScrolls[1]
        /\ obs.ceiling =>
              /\ TruthyNum(active.maxScrolls)
              /\ obs.staleRun = active.maxScrolls[1]
              /\ pc \in {"complete", "catch", "done"}
              /\ pc = "complete" => result.stopReason = "endReached"

\* C29 witness: with maxScrolls = MaxCap, a cycle that added items was
\* followed by MaxCap cycles that added none, and the run has stopped on the
\* ceiling.
C29_Witness ==
    /\ options.pagination.type = "infinite-scroll"
    /\ options.pagination.maxScrolls = Some(MaxCap)
    /\ obs.ceiling
    /\ pc = "done" /\ outcome = "resolved"
    /\ result.stopReason = "endReached"
    /\ state.currentPage = MaxCap
    /\ result.items # <<>>

\* the terminal events fired so far
TerminalEvents == obs.fired.onComplete + obs.fired.onError

\* C30: in a run whose document opened and whose handlers return, onPageStart
\* fires exactly once, on the open page, before the first extractor call and
\* before any other event; onPageComplete is called only right after the
\* onItemsExtracted of the batch it is passed; and the run ends with exactly
\* one terminal event, onComplete on a normal stop and onError on a failure,
\* which is the last event fired.
C30_EventsOrdered ==
    ~obs.handlerThrew =>
        /\ obs.fired.onPageStart <= 1
        /\ obs.fired.onPageStart = 1 <=>
              (Opened /\ pc \notin {"getPage", "onPageStart"})
        /\ obs.fired.onPageStart = 0 =>
              (~obs.extractorCalled /\ obs.lastEvent = "none")
        /\ ~obs.late
        /\ pc = "onPageComplete" =>
              /\ obs.lastEvent = "onItemsExtracted"
              /\ obs.fullBatch
              /\ obs.extractedPages[Len(obs.extractedPages)]
                    = state.currentPage
        /\ TerminalEvents <= 1
        /\ TerminalEvents = 1 <=> (pc = "done" /\ Opened)
        /\ TerminalEvents = 1 =>
              /\ obs.lastEvent \in {"onComplete", "onError"}
              /\ obs.fired.onComplete = 1 <=> result.completed
              /\ obs.fired.onError = 1 <=> result.stopReason = "error"
              /\ obs.fired.onError = 1 <=> obs.fault.by # "none"

\* C30 witness: a cursor-based run completed a cycle and failed in its second
\* when navigateWithCursor threw; it has ended with onError as its one
\* terminal event.
C30_Witness ==
    /\ options.pagination.type = "cursor-based"
    /\ ~obs.handlerThrew
    /\ pc = "done" /\ outcome = "resolved"
    /\ obs.fault.by = "navigateWithCursor" /\ obs.fault.page = 1
    /\ obs.fired = [onPageStart |-> 1, onError |-> 1, onComplete |-> 0]
    /\ obs.lastEvent = "onError"
    /\ obs.harvested = 2

\* the handlers of a run other than onError
RunHandlers == Handlers \ {"onError"}

C32_CurrentPageCounts ==
    /\ [](state.currentPage = result.pagesProcessed)
    /\ [][\/ state'.currentPage = state.currentPage
          \/ /\ state'.currentPage = state.currentPage + 1
             /\ pc = "advance" /\ pc' = "loop"]_vars
    /\ [][pc = "hybridCatch" => state'.currentPage = state.currentPage]_vars

\* C32 witness: the load-more fallback of a hybrid run has made its harvest
\* before the loop, and told onItemsExtracted of it, after the primary had
\* completed a cycle; both counters are still at 1 at its first loop guard.
C32_Witness ==
    /\ phase = "fallback" /\ active.type = "load-more-button"
    /\ pc = "loop"
    /\ obs.fallbackStarts = 1
    /\ obs.lastEvent = "onItemsExtracted"
    /\ obs.extractedPages[Len(obs.extractedPages)] = 1
    /\ state.currentPage = 1
    /\ result.pagesProcessed = 1

\* the configurations whose own executor reads the caps: every strategy but
\* hybrid, whose caps are its strategies', and time-based, which has no loop
ReadsOwnCaps == options.pagination.type \notin {"hybrid", "time-based"}

\* C33: a cap set to 0 is a cap: with maxPages = 0, or with maxItems = 0, no
\* cycle is started - no onPageComplete is called and currentPage stays 0 -
\* and a run that ends without an error ends with that cap's stop reason.
C33_ZeroCapStops ==
    /\ (ReadsOwnCaps /\ options.pagination.maxPages = Some(0)) =>
          /\ pc # "onPageComplete"
          /\ state.currentPage = 0
          /\ (pc = "done" /\ Opened /\ result.errors = <<>>) =>
                result.stopReason = "maxPages"
    /\ (/\ ReadsOwnCaps
        /\ options.pagination.maxItems = Some(0)
        /\ ~TruthyNum(options.pagination.maxPages)) =>
          /\ pc # "onPageComplete"
          /\ state.currentPage = 0
          /\ (pc = "done" /\ Opened /\ result.errors = <<>>) =>
                result.stopReason = "maxItems"

\* C34: a search for the load-more button examines the selectors in list
\* order from buttonSelector on, and ends at the first one that is visible
\* and whose click succeeds: it makes at most one successful click, on the
\* selector it examined last, and the cycle goes on to its harvest; a search
\* without a successful click has examined every selector, and the executor
\* returns with 'endReached' without calling the extractor again.
C34_FirstButtonWins ==
    obs.search # NoSearch =>
        /\ active.type = "load-more-button"
        /\ \A i \in 1..Len(obs.search.examined) : obs.search.examined[i] = i
        /\ Len(obs.search.clicked) <= 1
        /\ obs.search.clicked # <<>> =>
              /\ obs.search.clicked[1] = Len(obs.search.examined)
              /\ pc = "content"
        /\ obs.search.clicked = <<>> =>
              /\ Len(obs.search.examined) = NumSelectors
              /\ pc = "complete"
              /\ result.stopReason = "endReached"

\* C34 witness: the search found buttonSelector's button hidden and clicked
\* the alternative's; the cycle is about to harvest.
C34_Witness ==
    /\ obs.search = [examined |-> <<1, 2>>, clicked |-> <<2>>]
    /\ pc = "content"
    /\ obs.harvested = 1

\* C35: when the optional wait of a cycle - for loadingSelector after a
\* scroll, for waitForSelector after a load-more click - has timed out,
\* nothing is thrown or recorded: errors is empty, stopReason is what it was
\* when the run started, onError has not fired, and the executor is at the
\* step that follows a wait that succeeded: the end of the cycle after a
\* scroll, the harvest after a click.
C35_OptionalWaitTolerated ==
    obs.waitTimedOut =>
        /\ thrown = <<>>
        /\ result.errors = <<>>
        /\ state.errors = <<>>
        /\ result.stopReason = "endReached"
        /\ ~result.completed
        /\ obs.fired.onError = 0
        /\ obs.fault.by # "waitForSelector"
        /\ pc = CASE active.type = "infinite-scroll" -> "advance"
                  [] active.type = "load-more-button" -> "content"
                  [] OTHER -> "none"

\* C35 witness: the wait for loadingSelector timed out after the scroll of an
\* infinite-scroll run's second cycle, which goes on to its end.
C35_Witness ==
    /\ options.pagination.type = "infinite-scroll"
    /\ obs.waitTimedOut
    /\ pc = "advance"
    /\ state.currentPage = 1
    /\ loc.scrollCount = 1
    /\ result.errors = <<>>

\* the runs that have been handed a browser by getBrowser
Served == { r \in Runs : run[r].browser # NoBrowser /\ run[r].pc # "launch" }

\* C36: the service launches at most one browser, whichever way the calls
\* of getBrowser interleave: every run is handed the browser the service
\* holds, so every browser launched is the one in the service's field.
C36_OneBrowser ==
    /\ surface.launched <= 1
    /\ \A r \in Served : run[r].browser = browser

(***************************************************************************)
(* A hybrid run and a run of its primary strategy, side by side on         *)
(* documents that behave alike.  The variables hold one of the two runs    *)
(* and twin.other holds the other; Swap exchanges them.  The leader, whose *)
(* executor never throws, takes a step of the engine; the follower is then *)
(* given the same extractor, handlers and document behaviour, that is, it  *)
(* is followed only along the steps that bring it where the leader is: the *)
(* same position, state, result and locals after the same call with the    *)
(* same outcome.  Either run can be the leader.                            *)
(***************************************************************************)
\* the two runs
Twins == {"hybrid", "direct"}

\* the primary strategies that can run without throwing
TwinPrimaries == { c \in PrimaryStrategies : c.type # "time-based" }

\* the options of the hybrid run, and of the run of its primary strategy
HybridOptions(dup) ==
    [pagination |-> [type |-> "hybrid", maxPages |-> Some(1),
                     maxItems |-> Some(1), maxScrolls |-> Undefined,
                     stopCondition |-> FALSE, switchCondition |-> ~dup],
     hasIsDuplicate |-> dup, includeDuplicates |-> FALSE]

DirectOptions(primaryStrategy, dup) ==
    [pagination |-> primaryStrategy, hasIsDuplicate |-> dup,
     includeDuplicates |-> FALSE]

TwinOptions(which, primaryStrategy, dup) ==
    IF which = "hybrid" THEN HybridOptions(dup)
    ELSE DirectOptions(primaryStrategy, dup)

\* the state and the result extractWithPagination constructs
NewState ==
    [currentPage |-> 0, totalItems |-> 0, errors |-> <<>>,
     lastCursor |-> Undefined]

NewResult ==
    [items |-> <<>>, pagesProcessed |-> 0, totalTime |-> 0,
     completed |-> FALSE, stopReason |-> "endReached",
     errors |-> <<>>, startTime |-> StartTime, endTime |-> 0,
     averagePageTime |-> Quotient(0, 1), lastCursor |-> Undefined]

\* what the observer of a compared run starts with
TracedObs ==
    [fired |-> NoEvents, extractorCalled |-> FALSE,
     pageCloses |-> 0, ctxCloses |-> 0, late |-> FALSE,
     fault |-> NoFault, primaryFault |-> "none",
     onErrorArgs |-> <<>>, handlerThrew |-> FALSE, onErrorThrew |-> FALSE,
     revealFault |-> FALSE, openFailed |-> "none", fallbackStarts |-> 0,
     harvested |-> 0, buttonSeen |-> FALSE, clicked |-> FALSE,
     stale |-> FALSE, lastToken |-> Undefined, unused |-> FALSE,
     navigatedWith |-> Undefined, switchConditionCalls |-> 0,
     extractedPages |-> <<>>, fullBatch |-> TRUE, wholeBatches |-> TRUE,
     offsetUnchanged |-> FALSE, added |-> FALSE, cycleScrolls |-> 0,
     staleRun |-> 0, ceiling |-> FALSE, lastEvent |-> "none",
     search |-> NoSearch, waitTimedOut |-> FALSE, traced |-> TRUE,
     lastCall |-> <<>>]

\* a run whose getPage has returned: the state Init with the document open
StartOfRun(opts) ==
    [options |-> opts, active |-> NoConfig, phase |-> "none",
     pc |-> "onPageStart", state |-> NewState, result |-> NewResult,
     loc |-> NoLocals, page |-> "open", context |-> "open",
     contexts |-> {ThisContext}, thrown |-> <<>>, pending |-> "none",
     outcome |-> "pending", obs |-> TracedObs]

\* the run the variables hold
Bundle ==
    [options |-> options, active |-> active, phase |-> phase, pc |-> pc,
     state |-> state, result |-> result, loc |-> loc, page |-> page,
     context |-> context, contexts |-> contexts, thrown |-> thrown,
     pending |-> pending, outcome |-> outcome, obs |-> obs]

\* what the two runs are compared on: everything but the configuration,
\* the executor's place in the hybrid executor, and what the observer notes
\* of that place
Digest(b) ==
    [pc |-> b.pc, state |-> b.state, result |-> b.result, loc |-> b.loc,
     page |-> b.page, context |-> b.context, contexts |-> b.contexts,
     thrown |-> b.thrown, pending |-> b.pending, outcome |-> b.outcome,
     obs |-> [b.obs EXCEPT !.fault.phase = "none", !.primaryFault = "none",
                           !.added = FALSE, !.cycleScrolls = 0,
                           !.staleRun = 0, !.ceiling = FALSE]]

\* the two runs are at the same point
Synced == Digest(Bundle) = Digest(twin.other)

Other(which) == IF which = "hybrid" THEN "direct" ELSE "hybrid"

InitTwin ==
    /\ twin \in { [leader |-> l, holder |-> l, primary |-> c,
                    other |-> StartOfRun(TwinOptions(Other(l), c, dup))] :
                     l \in Twins, c \in TwinPrimaries, dup \in BOOLEAN }
    /\ options = TwinOptions(twin.leader, twin.primary,
                             twin.other.options.hasIsDuplicate)
    /\ active = NoConfig
    /\ phase = "none"
    /\ pc = "onPageStart"
    /\ state = NewState
    /\ result = NewResult
    /\ loc = NoLocals
    /\ page = "open"
    /\ context = "open"
    /\ contexts = {ThisContext}
    /\ thrown = <<>>
    /\ pending = "none"
    /\ outcome = "pending"
    /\ obs = TracedObs
    /\ browser = NoBrowser
    /\ surface = NoSurface
    /\ run = [r \in Runs |-> NewRun]

\* the executor of the run the variables hold has thrown
ExecutorThrew ==
    \/ pc = "hybridCatch"
    \/ pc = "catch" /\ obs.fault.by \notin {"onPageStart", "onComplete"}

\* a step of the run the variables hold: a step of the engine, in which the
\* hybrid executor is given the primary strategy of the comparison.  The
\* leader moves when the follower is where it is, and its executor does not
\* throw; the follower moves when it is behind, to where the leader is or,
\* with nothing to compare changed, towards it.
TwinStep ==
    /\ twin.holder \in Twins
    /\ Synced <=> twin.holder = twin.leader
    /\ Next
    /\ (pc = "performPagination" /\ active.type = "hybrid") =>
          active' = PrimaryConfig(twin.primary)
    /\ IF twin.holder = twin.leader
       THEN ~ExecutorThrew'
       ELSE \/ Digest(Bundle') = Digest(twin.other)
            \/ Digest(Bundle') = Digest(Bundle)

\* the variables are handed to the other run: to the follower when the
\* leader has moved, to the leader when the follower has caught up
Swap ==
    /\ twin.holder \in Twins
    /\ Synced <=> twin.holder # twin.leader
    /\ twin' = [twin EXCEPT !.holder = Other(@), !.other = Bundle]
    /\ options' = twin.other.options
    /\ active' = twin.other.active
    /\ phase' = twin.other.phase
    /\ pc' = twin.other.pc
    /\ state' = twin.other.state
    /\ result' = twin.other.result
    /\ loc' = twin.other.loc
    /\ page' = twin.other.page
    /\ context' = twin.other.context
    /\ contexts' = twin.other.contexts
    /\ thrown' = twin.other.thrown
    /\ pending' = twin.other.pending
    /\ outcome' = twin.other.outcome
    /\ obs' = twin.other.obs
    /\ UNCHANGED <<browser, surface, run>>

NextTwin ==
    \/ TwinStep
    \/ Swap

SpecTwin == InitTwin /\ [][NextTwin]_vars

IsConnected(b) == b \notin surface.disconnected

\* a browser goes away; the close events of its contexts may or may not
\* reach the service
Disconnect ==
    /\ \E b \in 1..surface.launched :
          /\ IsConnected(b)
          /\ surface' = [surface EXCEPT !.disconnected = @ \cup {b}]
          /\ \E lost \in {{}, { c \in contexts : surface.opened[c].browser = b }} :
                contexts' = contexts \ lost
    /\ UNCHANGED <<browser, run>>
    /\ IdleSingleRun

\* closePage, called by the caller getPage returned to: `if (page &&
\* !page.isClosed()) await page.close()`, whose error the catch block logs
closePage_page(r) ==
    /\ run[r].pc = "harvest"
    /\ IF IsConnected(run[r].browser)
       THEN /\ surface' = [surface EXCEPT
                              !.opened[OwnPage(r)].pageCloses = Append(@, r)]
            /\ run' = [run EXCEPT ![r].pc = "closePage.context"]
       ELSE \/ /\ run' = [run EXCEPT ![r].pc = "closePage.context"]
               /\ UNCHANGED surface
            \/ /\ surface' = [surface EXCEPT
                                 !.opened[OwnPage(r)].pageCloses = Append(@, r)]
               /\ run' = [run EXCEPT ![r].pc = "closePage.context"]
            \/ /\ run' = [run EXCEPT ![r].pc = "done",
                                      ![r].outcome = "resolved"]
               /\ UNCHANGED surface
    /\ UNCHANGED <<browser, contexts>>
    /\ IdleSingleRun

\* `if (context && !context.browser()?.isConnected())`
ClosesContext(b) == ~IsConnected(b)

\* closePage after the page: `await context.close()` under the test above,
\* whose close event removes the context from the tracked set and whose
\* error the catch block logs; the call returns
closePage_context(r) ==
    /\ run[r].pc = "closePage.context"
    /\ run' = [run EXCEPT ![r].pc = "done", ![r].outcome = "resolved"]
    /\ IF ClosesContext(run[r].browser)
       THEN \/ /\ surface' = [surface EXCEPT
                                 !.opened[OwnContext(r)].contextCloses =
                                     Append(@, r)]
               /\ contexts' = contexts \ {OwnContext(r)}
            \/ UNCHANGED <<surface, contexts>>
       ELSE UNCHANGED <<surface, contexts>>
    /\ UNCHANGED browser
    /\ IdleSingleRun

NextClosePage ==
    \/ \E r \in Runs :
          \/ GetBrowser(r)
          \/ Launch(r)
          \/ CreateContext(r)
          \/ NewPage(r)
          \/ Goto(r)
          \/ closePage_page(r)
          \/ closePage_context(r)
    \/ Disconnect

SpecClosePage == InitConcurrent /\ [][NextClosePage]_vars

\* the callers whose closePage has returned
Returned == { r \in Runs : run[r].pc = "done" /\ run[r].page # 0
                             /\ run[r].outcome = "resolved" }

\* C38: when closePage has returned and the browser is connected, the page
\* and the context it was given are closed and the context is no longer in
\* the service's tracked set; the call never rejects.
C38_ClosePageReleases ==
    \A r \in Runs :
        /\ (r \in Returned /\ IsConnected(run[r].browser)) =>
              /\ surface.opened[OwnPage(r)].pageCloses # <<>>
              /\ surface.opened[OwnContext(r)].contextCloses # <<>>
              /\ OwnContext(r) \notin contexts
        /\ (run[r].pc = "done" /\ surface.opened[OwnPage(r)].url = Url(r)) =>
              run[r].outcome = "resolved"

====
